---- MODULE Spec2Model ----
(***************************************************************************)
(* Model of the enhanced OpenWebdev (Chutes) provider's bounded instance   *)
(* cache: app/lib/modules/llm/providers/chutes.ts.                         *)
(*                                                                         *)
(* The provider object holds a Map from cache key to model instance (a JS  *)
(* Map iterates in insertion order, so it is a sequence of entries here),  *)
(* a Map of per-model request counts, and the time of the last cleanup.    *)
(* Every public method is synchronous, so one call is one action.          *)
(***************************************************************************)
EXTENDS Integers, Sequences, FiniteSets, TLC

\* ------------------------------------------------------------------ bounds
\* Models are numbered 1..MaxModels.
MaxModels == 102
\* Cap on the number of instances built in a behaviour.
MaxConstructions == 103
\* Cap on the number of clock advances in a behaviour.
MaxTicks == 2
\* Cap on one model's request count.
MaxRequests == 2
\* SpecOptions: the models requested and the cap on instances built.
OptionModels == 1
OptionConstructions == 2
\* clearCache is called only among the first ClearWindow constructions of
\* a behaviour or among its last ClearWindow.
ClearWindow == 1
\* SpecCallers: the number of callers and of the calls they make together.
MaxCallers == 2
MaxCalls == 3
\* SpecHealth: heap sizes are 1..MaxHeap units.
MaxHeap == 20
\* SpecModels: the longest data array in a response of the models endpoint.
MaxRemote == 2

\* ------------------------------------------------------- program constants
name == "OpenWebdev"
cacheCleanupInterval == 5 * 60 * 1000
maxCacheSize == 100
configBaseUrl == "https://llm.chutes.ai/v1"

\* JavaScript's undefined (a missing string option or property).
Undefined == "undefined"
\* providerSettings with no entry for this provider, and the absence of an
\* instance (the result of a call that threw, or of clearCache).
UndefinedSettings == [defined |-> FALSE, baseUrl |-> Undefined]
NoInstance == [id |-> 0, baseUrl |-> Undefined, apiKey |-> Undefined, model |-> 0]

VARIABLES
    modelInstanceCache,   \* Seq of [key, value], in Map insertion order
    performanceMetrics,   \* function: model -> request count (Map keys = DOMAIN)
    lastCacheCleanup,     \* ms timestamp of the last cleanup
    now,                  \* Date.now()
    created,              \* number of instances _createOptimizedModel has built so far
    lastCall,             \* what the most recent call was given and returned
    pending,              \* per caller: the call it has scheduled or completed
    health,               \* the health endpoint's last response and its inputs
    deployment,           \* the deployment script's run
    dynamicModels         \* the last getDynamicModels call: its inputs and result

vars == <<modelInstanceCache, performanceMetrics, lastCacheCleanup, now, created, lastCall,
          pending, health, deployment, dynamicModels>>

\* ------------------------------------------------------------ Map helpers
\* Variant: the lookup never finds the key.
cacheHasNever(cache, key) == FALSE

cacheHas(cache, key) == \E i \in DOMAIN cache : cache[i].key = key

cacheGet(cache, key) ==
    IF \E i \in DOMAIN cache : cache[i].key = key
    THEN cache[CHOOSE i \in DOMAIN cache : cache[i].key = key].value
    ELSE NoInstance

\* Map.set: an existing key keeps its position, a new key goes last.
cacheSet(cache, key, value) ==
    IF \E i \in DOMAIN cache : cache[i].key = key
    THEN [i \in DOMAIN cache |->
            IF cache[i].key = key THEN [key |-> key, value |-> value] ELSE cache[i]]
    ELSE Append(cache, [key |-> key, value |-> value])

\* ------------------------------------------------------------- cache key
\* providerSettings?.[this.name] || {}
SettingsOrEmpty(settings) ==
    IF settings.defined THEN settings ELSE [defined |-> TRUE, baseUrl |-> Undefined]

\* JSON.stringify of a settings object: undefined properties are omitted.
JSONstringify(settings) ==
    IF settings.baseUrl = Undefined
    THEN "{}"
    ELSE "{\"baseUrl\":\"" \o settings.baseUrl \o "\"}"

\* `${model}_${this.name}_${JSON.stringify(...)}`
cacheKey(model, settings) ==
    <<model, name, JSONstringify(SettingsOrEmpty(settings))>>

\* ------------------------------------------------ credentials resolution
\* BaseProvider.getProviderBaseUrlAndKey: settings, then server environment,
\* then the provider's configured default.
getProviderBaseUrlAndKey(apiKeys, settings, serverEnv) ==
    LET settingsBaseUrl == IF settings.defined THEN settings.baseUrl ELSE Undefined
        baseUrl == IF settingsBaseUrl # Undefined THEN settingsBaseUrl
                   ELSE IF serverEnv.CHUTES_API_BASE_URL # Undefined
                        THEN serverEnv.CHUTES_API_BASE_URL
                        ELSE configBaseUrl
        apiKey == IF apiKeys # Undefined THEN apiKeys ELSE serverEnv.CHUTES_API_KEY
    IN  [baseUrl |-> baseUrl, apiKey |-> apiKey]

\* --------------------------------------------------------------- metrics
\* Variant: current.requests = 1.
updatePerformanceMetricsReset(metrics, model) ==
    [m \in DOMAIN metrics \cup {model} |-> IF m = model THEN 1 ELSE metrics[m]]

\* current = get(model) || {requests: 0, ...}; current.requests += 1; set.
updatePerformanceMetrics(metrics, model) ==
    LET current == IF model \in DOMAIN metrics THEN metrics[model] ELSE 0
    IN  [m \in DOMAIN metrics \cup {model} |->
            IF m = model THEN current + 1 ELSE metrics[m]]

\* -------------------------------------------------------------- eviction
\* Variant: Math.floor(0.2) * this._maxCacheSize.
entriesToRemoveFloorFirst(M) == 0 * M

\* Variant: 30% of the cache.
entriesToRemoveThirty(M) == (M * 3) \div 10

\* Math.floor(this._maxCacheSize * 0.2)
entriesToRemove(M) == (M * 2) \div 10

\* Variant: the entries are taken from the end of the key snapshot.
performIntelligentCacheEvictionNewest(cache, M) ==
    LET n == IF entriesToRemove(M) < Len(cache) THEN entriesToRemove(M) ELSE Len(cache)
    IN  SubSeq(cache, 1, Len(cache) - n)

\* Deletes entries[0 .. entriesToRemove-1] of the key snapshot; an index
\* past the end of the snapshot yields undefined and deletes nothing.
performIntelligentCacheEviction(cache, M) ==
    LET n == IF entriesToRemove(M) < Len(cache) THEN entriesToRemove(M) ELSE Len(cache)
    IN  SubSeq(cache, n + 1, Len(cache))

\* Variant: size > this._maxCacheSize * 0.9.
CacheGettingLargeNinety(size, M) == size * 10 > M * 9

\* size > this._maxCacheSize * 0.8
CacheGettingLarge(size, M) == size * 10 > M * 8

\* Variant: the cleanup clock is set only when an eviction ran.
performPeriodicCacheCleanupClockOnEviction(cache, last, t, M) ==
    IF t - last > cacheCleanupInterval /\ CacheGettingLarge(Len(cache), M)
    THEN [cache |-> performIntelligentCacheEviction(cache, M), last |-> t, runs |-> 1]
    ELSE [cache |-> cache, last |-> last, runs |-> 0]

\* Returns the cache and the cleanup clock after the periodic check, and
\* the number of eviction runs it made.
performPeriodicCacheCleanup(cache, last, t, M) ==
    IF t - last > cacheCleanupInterval
    THEN IF CacheGettingLarge(Len(cache), M)
         THEN [cache |-> performIntelligentCacheEviction(cache, M), last |-> t, runs |-> 1]
         ELSE [cache |-> cache, last |-> t, runs |-> 0]
    ELSE [cache |-> cache, last |-> last, runs |-> 0]

\* ---------------------------------------------------------- construction
\* createOpenAI({baseURL, apiKey, fetch})(model, ...): a fresh object each
\* time; id is the serial number of the instance.
createOptimizedModel(baseUrl, apiKey, model, id) ==
    [id |-> id, baseUrl |-> baseUrl, apiKey |-> apiKey, model |-> model]

\* ------------------------------------------------------- getModelInstance
\* The outcome of a call: the provider's fields after it, and what a caller
\* or a spy on the provider sees of it: the cache key it computed, whether
\* it returned or threw, the instance it returned, whether it invoked the
\* model factory, the Map's size right after its insert (0: no insert) and
\* the number of eviction runs it made.

\* Variant: a hit moves the entry to the end of the Map (delete, then set).
CacheHitRefresh(st, req, key) ==
    [cache    |-> Append(SelectSeq(st.cache, LAMBDA e : e.key # key),
                         [key |-> key, value |-> cacheGet(st.cache, key)]),
     metrics  |-> updatePerformanceMetrics(st.metrics, req.model),
     last     |-> st.last,
     created  |-> st.created,
     key      |-> key,
     outcome  |-> "returned",
     result   |-> cacheGet(st.cache, key),
     invoked  |-> FALSE,
     inserted |-> 0,
     runs     |-> 0]

\* Cache hit: count the request, return the cached instance.
CacheHit(st, req, key) ==
    [cache    |-> st.cache,
     metrics  |-> updatePerformanceMetrics(st.metrics, req.model),
     last     |-> st.last,
     created  |-> st.created,
     key      |-> key,
     outcome  |-> "returned",
     result   |-> cacheGet(st.cache, key),
     invoked  |-> FALSE,
     inserted |-> 0,
     runs     |-> 0]

\* Variant: the key is reserved in the Map before construction.
ThrownKeyReserved(st, cleaned, key, outcome, invoked) ==
    [cache    |-> cacheSet(cleaned.cache, key, NoInstance),
     metrics  |-> st.metrics,
     last     |-> cleaned.last,
     created  |-> st.created,
     key      |-> key,
     outcome  |-> outcome,
     result   |-> NoInstance,
     invoked  |-> invoked,
     inserted |-> 0,
     runs     |-> cleaned.runs]

\* A throw on the miss path: the periodic cleanup has run, nothing else.
Thrown(st, cleaned, key, outcome, invoked) ==
    [cache    |-> cleaned.cache,
     metrics  |-> st.metrics,
     last     |-> cleaned.last,
     created  |-> st.created,
     key      |-> key,
     outcome  |-> outcome,
     result   |-> NoInstance,
     invoked  |-> invoked,
     inserted |-> 0,
     runs     |-> cleaned.runs]

\* Variant: no size check after the set.
InsertAndCheckSizeNoEviction(cache, key, value, M) ==
    LET set == cacheSet(cache, key, value)
    IN  [cache |-> set, inserted |-> Len(set), runs |-> 0]

\* this._modelInstanceCache.set(cacheKey, modelInstance), then the size
\* check: the Map after both, its size in between, the eviction runs made.
InsertAndCheckSize(cache, key, value, M) ==
    LET set == cacheSet(cache, key, value)
    IN  IF Len(set) > M
        THEN [cache |-> performIntelligentCacheEviction(set, M), inserted |-> Len(set), runs |-> 1]
        ELSE [cache |-> set, inserted |-> Len(set), runs |-> 0]

\* Cache miss: periodic cleanup, credentials, construction, insert, size
\* check, metrics.
CacheMiss(st, t, req, key) ==
    LET cleaned == performPeriodicCacheCleanup(st.cache, st.last, t, maxCacheSize)
        cfg == getProviderBaseUrlAndKey(req.apiKeys, req.providerSettings, req.serverEnv)
    IN  IF cfg.baseUrl = Undefined \/ cfg.apiKey = Undefined
        THEN Thrown(st, cleaned, key, "missing configuration", FALSE)
        ELSE IF req.throws
        THEN Thrown(st, cleaned, key, "factory error", TRUE)
        ELSE LET modelInstance == createOptimizedModel(cfg.baseUrl, cfg.apiKey,
                                                       req.model, st.created + 1)
                 set == InsertAndCheckSize(cleaned.cache, key, modelInstance, maxCacheSize)
             IN  [cache    |-> set.cache,
                  metrics  |-> updatePerformanceMetrics(st.metrics, req.model),
                  last     |-> cleaned.last,
                  created  |-> st.created + 1,
                  key      |-> key,
                  outcome  |-> "returned",
                  result   |-> modelInstance,
                  invoked  |-> TRUE,
                  inserted |-> set.inserted,
                  runs     |-> cleaned.runs + set.runs]

\* Variant: the periodic cleanup runs before the cache lookup.
getModelInstanceCleanupFirst(st, t, req) ==
    LET key == cacheKey(req.model, req.providerSettings)
        cleaned == performPeriodicCacheCleanup(st.cache, st.last, t, maxCacheSize)
        st2 == [st EXCEPT !.cache = cleaned.cache, !.last = cleaned.last]
    IN  IF cacheHas(st2.cache, key)
        THEN [CacheHit(st2, req, key) EXCEPT !.runs = cleaned.runs]
        ELSE [CacheMiss(st2, t, req, key) EXCEPT !.runs = @ + cleaned.runs]

\* Cache key, lookup, then the hit path or the miss path.
getModelInstance(st, t, req) ==
    LET key == cacheKey(req.model, req.providerSettings)
    IN  IF cacheHas(st.cache, key)
        THEN CacheHit(st, req, key)
        ELSE CacheMiss(st, t, req, key)

NoKey == <<0, name, "{}">>

\* Variant: the metrics survive the clear.
clearCacheKeepsMetrics(st, t) ==
    [cache |-> <<>>, metrics |-> st.metrics, last |-> t, created |-> st.created,
     key |-> NoKey, outcome |-> "returned", result |-> NoInstance,
     invoked |-> FALSE, inserted |-> 0, runs |-> 0]

\* clearCache(): both maps emptied, the cleanup clock set to Date.now().
clearCache(st, t) ==
    [cache |-> <<>>, metrics |-> <<>>, last |-> t, created |-> st.created,
     key |-> NoKey, outcome |-> "returned", result |-> NoInstance,
     invoked |-> FALSE, inserted |-> 0, runs |-> 0]

\* ---------------------------------------------------------------- inputs
NoEnv == [CHUTES_API_BASE_URL |-> Undefined, CHUTES_API_KEY |-> Undefined]
KeyEnv == [CHUTES_API_BASE_URL |-> Undefined, CHUTES_API_KEY |-> "keyE"]
UrlEnv == [CHUTES_API_BASE_URL |-> "https://env.example/v1", CHUTES_API_KEY |-> Undefined]
EmptySettings == [defined |-> TRUE, baseUrl |-> Undefined]
AltSettings == [defined |-> TRUE, baseUrl |-> "https://alt.example/v1"]

HotModels == {1}

\* The first model above every cached one.
FreshModel(cache) ==
    LET ms == {cache[i].key[1] : i \in DOMAIN cache}
    IN  IF ms = {} THEN 1 ELSE 1 + (CHOOSE m \in ms : \A x \in ms : x <= m)

\* Filling the cache: a request names a hot model or the first model above
\* every cached one, with the default options and the API key given or not.
FillRequests(cache) ==
    [model : (HotModels \cup {FreshModel(cache)}) \cap 1..MaxModels,
     providerSettings : {UndefinedSettings},
     apiKeys : {Undefined, "keyA"},
     serverEnv : {NoEnv},
     throws : BOOLEAN]

\* Exercising the options: a few models, every combination of options.
OptionRequests ==
    [model : 1..OptionModels,
     providerSettings : {UndefinedSettings, EmptySettings, AltSettings},
     apiKeys : {Undefined, "keyA", "keyB"},
     serverEnv : {NoEnv, KeyEnv, UrlEnv},
     throws : BOOLEAN]

\* ----------------------------------------------------------------- state
State == [cache |-> modelInstanceCache, metrics |-> performanceMetrics,
          last |-> lastCacheCleanup, created |-> created]

\* The health endpoint has not been requested.
HealthNotAsked ==
    [asked |-> FALSE, fetches |-> <<>>, hasProcess |-> FALSE, heapUsed |-> 0, heapTotal |-> 0,
     status |-> "none", database |-> "none", cache |-> "none", external_apis |-> "none",
     memory |-> "none", statusCode |-> 0]
\* execSync and writeFileSync have thrown nothing.
NoError == <<"none", "">>
requiredEnvVars == <<"NODE_ENV", "DATABASE_URL", "CHUTES_API_KEY">>
EnvVars == {requiredEnvVars[i] : i \in DOMAIN requiredEnvVars}

\* The deployment script has not been started.
DeployNotStarted ==
    [pc |-> "notStarted",
     config |-> [environment |-> "none", buildOptimizations |-> FALSE,
                 securityChecks |-> FALSE, performanceTests |-> FALSE],
     env |-> [v \in EnvVars |-> Undefined],
     steps |-> <<>>, commands |-> <<>>, failures |-> {}, written |-> {},
     thrown |-> NoError, failedAt |-> "none", succeeded |-> FALSE, exitCode |-> 0]

\* A response of the models endpoint that never arrived, and no call of
\* getDynamicModels yet.
NoResponse == [settled |-> "none", ok |-> FALSE, body |-> "none", data |-> <<>>]
NotListed ==
    [provider |-> "none", apiKeys |-> Undefined, settings |-> UndefinedSettings,
     serverEnv |-> [CHUTES_API_BASE_URL |-> Undefined, CHUTES_API_KEY |-> Undefined],
     response |-> NoResponse, threw |-> FALSE, models |-> <<>>]

\* No caller has scheduled a call.
NoRequest == [model |-> 0, providerSettings |-> UndefinedSettings, apiKeys |-> Undefined,
              serverEnv |-> NoEnv, throws |-> FALSE]
IdleCaller == [status |-> "idle", op |-> "none", req |-> NoRequest, calls |-> 0,
               overlap |-> FALSE, id |-> 0, built |-> FALSE]
Callers == 1..MaxCallers

NewCall == [op |-> "new", key |-> NoKey, outcome |-> "returned",
            result |-> NoInstance, invoked |-> FALSE, inserted |-> 0, runs |-> 0]

\* The other programs of the repository have not run.
OthersIdle ==
    /\ pending = [c \in Callers |-> IdleCaller]
    /\ health = HealthNotAsked
    /\ deployment = DeployNotStarted
    /\ dynamicModels = NotListed

Init ==
    /\ modelInstanceCache = <<>>
    /\ performanceMetrics = <<>>
    /\ now = 0
    /\ lastCacheCleanup = 0
    /\ created = 0
    /\ lastCall = NewCall
    /\ OthersIdle

Apply(op, r) ==
    /\ modelInstanceCache' = r.cache
    /\ performanceMetrics' = r.metrics
    /\ lastCacheCleanup' = r.last
    /\ created' = r.created
    /\ lastCall' = [op |-> op, key |-> r.key, outcome |-> r.outcome,
                    result |-> r.result, invoked |-> r.invoked,
                    inserted |-> r.inserted, runs |-> r.runs]
    /\ UNCHANGED now

GetModelInstance(req) ==
    /\ req.model \in DOMAIN performanceMetrics => performanceMetrics[req.model] < MaxRequests
    /\ Apply("getModelInstance", getModelInstance(State, now, req))
    /\ UNCHANGED <<pending, health, deployment, dynamicModels>>

ClearCache ==
    /\ Apply("clearCache", clearCache(State, now))
    /\ UNCHANGED <<pending, health, deployment, dynamicModels>>

\* Time passes between calls.
Tick ==
    /\ now < MaxTicks * cacheCleanupInterval
    /\ now' = now + cacheCleanupInterval
    /\ UNCHANGED <<modelInstanceCache, performanceMetrics, lastCacheCleanup, created, lastCall>>
    /\ UNCHANGED <<pending, health, deployment, dynamicModels>>

\* The cache filled past its maximum size, one new model after another.
Next ==
    \/ /\ created < MaxConstructions
       /\ \E req \in FillRequests(modelInstanceCache) : GetModelInstance(req)
    \/ /\ \/ created <= ClearWindow
          \/ created >= MaxConstructions - ClearWindow
       /\ ClearCache
    \/ Tick

Spec == Init /\ [][Next]_vars

\* A few instances, requested with every combination of options.
NextOptions ==
    \/ /\ created < OptionConstructions
       /\ \E req \in OptionRequests : GetModelInstance(req)
    \/ ClearCache
    \/ Tick

SpecOptions == Init /\ [][NextOptions]_vars

\* ---------------------------------------------------------------- callers
\* Several callers of one provider on one event loop.  getModelInstance and
\* clearCache are synchronous methods without an await, so a scheduled call
\* runs from its first statement to its return as one step.
PrefillRequest(m) ==
    [model |-> m, providerSettings |-> UndefinedSettings, apiKeys |-> "keyA",
     serverEnv |-> NoEnv, throws |-> FALSE]

\* The provider after returning calls for the models 1..n, one after
\* another, on a new provider: each call missed, built instance number m and
\* inserted it last; no cleanup was due and the size stayed within the bound.
Prefilled(n) ==
    LET cfg == getProviderBaseUrlAndKey("keyA", UndefinedSettings, NoEnv)
        built(m) == createOptimizedModel(cfg.baseUrl, cfg.apiKey, m, m)
    IN  [cache    |-> [m \in 1..n |-> [key |-> cacheKey(m, UndefinedSettings),
                                       value |-> built(m)]],
         metrics  |-> [m \in 1..n |-> 1],
         last     |-> 0,
         created  |-> n,
         key      |-> IF n = 0 THEN NoKey ELSE cacheKey(n, UndefinedSettings),
         outcome  |-> "returned",
         result   |-> IF n = 0 THEN NoInstance ELSE built(n),
         invoked  |-> n > 0,
         inserted |-> n,
         runs     |-> 0]

\* The callers start on a full cache.
Prefill == maxCacheSize

\* What a caller asks for: the model cached first, or a new model.
CallerCalls ==
    [op : {"getModelInstance"}, req : {PrefillRequest(m) : m \in {1, Prefill + 1}}]
    \cup [op : {"clearCache"}, req : {NoRequest}]

RECURSIVE CallsMade(_)
CallsMade(cs) ==
    IF cs = {} THEN 0
    ELSE LET c == CHOOSE x \in cs : TRUE IN pending[c].calls + CallsMade(cs \ {c})

\* The callers start right after the cache was filled, or more than a
\* cleanup interval later.
InitCallers ==
    LET r == Prefilled(Prefill)
    IN  /\ modelInstanceCache = r.cache
        /\ performanceMetrics = r.metrics
        /\ now \in {0, cacheCleanupInterval + 1}
        /\ lastCacheCleanup = r.last
        /\ created = r.created
        /\ lastCall = [op |-> "getModelInstance", key |-> r.key, outcome |-> r.outcome,
                       result |-> r.result, invoked |-> r.invoked,
                       inserted |-> r.inserted, runs |-> r.runs]
        /\ OthersIdle

\* Caller c schedules a call; it has not run yet.
Issue(c, call) ==
    /\ pending[c].status # "issued"
    /\ CallsMade(Callers) < MaxCalls
    /\ pending' = [pending EXCEPT ![c] =
                      [status |-> "issued", op |-> call.op, req |-> call.req,
                       calls |-> pending[c].calls + 1,
                       overlap |-> \E d \in Callers \ {c} : pending[d].status = "issued",
                       id |-> 0, built |-> FALSE]]
    /\ UNCHANGED <<modelInstanceCache, performanceMetrics, lastCacheCleanup, now, created,
                   lastCall, health, deployment, dynamicModels>>

\* The event loop runs caller c's scheduled call to its return.
Run(c) ==
    /\ pending[c].status = "issued"
    /\ LET r == IF pending[c].op = "clearCache"
                THEN clearCache(State, now)
                ELSE getModelInstance(State, now, pending[c].req)
       IN  /\ Apply(pending[c].op, r)
           /\ pending' = [pending EXCEPT ![c] =
                             [@ EXCEPT !.status = "done", !.id = r.result.id,
                                       !.built = r.invoked /\ r.outcome = "returned"]]
    /\ UNCHANGED <<health, deployment, dynamicModels>>

NextCallers ==
    \/ \E c \in Callers, call \in CallerCalls : Issue(c, call)
    \/ \E c \in Callers : Run(c)

SpecCallers == InitCallers /\ [][NextCallers]_vars

\* ------------------------------------------------------- health endpoint
\* The values the result types declare.
DatabaseResults == {"healthy", "unhealthy"}
CacheResults == {"healthy", "unhealthy"}
ApiResults == {"healthy", "degraded", "unhealthy"}
MemoryResults == {"healthy", "warning", "critical"}

\* try { return 'healthy' } catch { return 'unhealthy' }: nothing throws.
checkDatabaseHealth == "healthy"
checkCacheHealth == "healthy"

\* The settled results of the fetches given to Promise.allSettled: one HEAD
\* request to https://llm.chutes.ai/health.
ApiChecks == 1
Settled == [1..ApiChecks -> {"fulfilled", "rejected"}]

checkExternalAPIs(checks) ==
    LET failedChecks == Cardinality({i \in DOMAIN checks : checks[i] = "rejected"})
    IN  IF failedChecks = 0 THEN "healthy"
        ELSE IF failedChecks * 2 < Len(checks) THEN "degraded"
        ELSE "unhealthy"

\* heapUsedPercent = (heapUsed / heapTotal) * 100, compared with 90 and 75.
checkMemoryUsage(hasProcess, heapUsed, heapTotal) ==
    IF hasProcess /\ heapUsed * 100 > 90 * heapTotal THEN "critical"
    ELSE IF hasProcess /\ heapUsed * 100 > 75 * heapTotal THEN "warning"
    ELSE "healthy"

\* Variant: unreachable external APIs make the overall status unhealthy.
overallStatusApiAware(dbHealth, cacheHealth, apiHealth, memoryHealth) ==
    IF dbHealth = "unhealthy" \/ memoryHealth = "critical" \/ apiHealth = "unhealthy"
    THEN "unhealthy"
    ELSE IF cacheHealth = "unhealthy" \/ apiHealth = "degraded" \/ memoryHealth = "warning"
    THEN "degraded"
    ELSE "healthy"

overallStatus(dbHealth, cacheHealth, apiHealth, memoryHealth) ==
    IF dbHealth = "unhealthy" \/ memoryHealth = "critical"
    THEN "unhealthy"
    ELSE IF cacheHealth = "unhealthy" \/ apiHealth = "degraded" \/ memoryHealth = "warning"
    THEN "degraded"
    ELSE "healthy"

statusCode(status) == IF status = "unhealthy" THEN 503 ELSE 200

loader(checks, hasProcess, heapUsed, heapTotal) ==
    LET dbHealth == checkDatabaseHealth
        cacheHealth == checkCacheHealth
        apiHealth == checkExternalAPIs(checks)
        memoryHealth == checkMemoryUsage(hasProcess, heapUsed, heapTotal)
        status == overallStatus(dbHealth, cacheHealth, apiHealth, memoryHealth)
    IN  [asked |-> TRUE, fetches |-> checks, hasProcess |-> hasProcess,
         heapUsed |-> heapUsed, heapTotal |-> heapTotal,
         status |-> status, database |-> dbHealth, cache |-> cacheHealth,
         external_apis |-> apiHealth, memory |-> memoryHealth,
         statusCode |-> statusCode(status)]

\* One request to the endpoint: the fetches settle, the heap is measured (in
\* a runtime without process.memoryUsage it is not).
Loader(checks, hasProcess, heapUsed, heapTotal) ==
    /\ health' = loader(checks, hasProcess, heapUsed, heapTotal)
    /\ UNCHANGED <<modelInstanceCache, performanceMetrics, lastCacheCleanup, now, created,
                   lastCall, pending, deployment, dynamicModels>>

NextHealth ==
    \E checks \in Settled, hasProcess \in BOOLEAN, heapTotal \in 1..MaxHeap :
        \E heapUsed \in 0..heapTotal :
            Loader(checks, hasProcess, heapUsed, heapTotal)

SpecHealth == Init /\ [][NextHealth]_vars

\* ------------------------------------------------------ deployment script
\* constructor(environment)
DeploymentConfig(environment) ==
    [environment |-> environment,
     buildOptimizations |-> environment = "production",
     securityChecks |-> environment = "production",
     performanceTests |-> environment = "production"]

\* !process.env[envVar]: unset or the empty string.
Falsy(value) == value \in {Undefined, ""}

\* execSync(command): the command is run; a non-zero exit makes it throw.
execSync(d, command, ok) ==
    [d EXCEPT !.commands = Append(@, command),
              !.failures = IF ok THEN @ ELSE @ \cup {command}]

\* writeFileSync(file): the file is written, or the call throws.
writeFileSync(d, file, ok) ==
    IF ok THEN [d EXCEPT !.written = @ \cup {file}]
    ELSE [d EXCEPT !.thrown = <<"writeFileSync failed", file>>]

\* Variant: the linter runs before the environment variables are looked at.
runPreDeploymentChecksLintFirst(d, lintOk) ==
    LET e == execSync(d, "npm run lint", lintOk)
        missing == {i \in DOMAIN requiredEnvVars : Falsy(d.env[requiredEnvVars[i]])}
    IN  IF ~lintOk /\ d.config.environment = "production"
        THEN [e EXCEPT !.thrown = <<"Linting failed. Fix errors before deploying to production.", "">>]
        ELSE IF missing # {}
        THEN [e EXCEPT !.thrown =
                <<"Missing required environment variable",
                  requiredEnvVars[CHOOSE i \in missing : \A j \in missing : i <= j]>>]
        ELSE e

\* The first required variable that is unset or empty throws; then the
\* linter runs, and its failure throws in production only.
runPreDeploymentChecks(d, lintOk) ==
    LET missing == {i \in DOMAIN requiredEnvVars : Falsy(d.env[requiredEnvVars[i]])}
    IN  IF missing # {}
        THEN [d EXCEPT !.thrown =
                <<"Missing required environment variable",
                  requiredEnvVars[CHOOSE i \in missing : \A j \in missing : i <= j]>>]
        ELSE LET e == execSync(d, "npm run lint", lintOk)
             IN  IF ~lintOk /\ d.config.environment = "production"
                 THEN [e EXCEPT !.thrown =
                         <<"Linting failed. Fix errors before deploying to production.", "">>]
                 ELSE e

buildApplication(d, buildOk) ==
    LET buildCommand == IF d.config.buildOptimizations
                        THEN "npm run build:production" ELSE "npm run build"
        e == execSync(d, buildCommand, buildOk)
    IN  IF buildOk THEN e ELSE [e EXCEPT !.thrown = <<"Build failed", "">>]

\* Variant: the test suite runs in every environment.
runTestsAlways(d, testsOk) ==
    LET e == execSync(d, "npm run test:ci", testsOk)
    IN  IF testsOk THEN e ELSE [e EXCEPT !.thrown = <<"Tests failed", "">>]

\* Skipped unless performanceTests; a failing suite throws.
runTests(d, testsOk) ==
    IF ~d.config.performanceTests THEN d
    ELSE LET e == execSync(d, "npm run test:ci", testsOk)
         IN  IF testsOk THEN e ELSE [e EXCEPT !.thrown = <<"Tests failed", "">>]

optimizeAssets(d, writeOk) ==
    IF d.config.buildOptimizations
    THEN writeFileSync(d, "build.config.json", writeOk)
    ELSE d

createDockerfile(d, writeOk) == writeFileSync(d, "Dockerfile", writeOk)

createDockerImage(d, dockerfileExists, writeOk, dockerOk) ==
    LET f == IF dockerfileExists THEN d ELSE createDockerfile(d, writeOk)
    IN  IF f.thrown # NoError THEN f
        ELSE LET e == execSync(f, "docker build", dockerOk)
             IN  IF dockerOk THEN e
                 ELSE [e EXCEPT !.thrown = <<"Docker image creation failed", "">>]

validateDeployment(d, auditOk) ==
    IF d.config.securityChecks
    THEN execSync(d, "npm audit --audit-level high", auditOk)
    ELSE d

\* The steps of deploy(), in the order of its try block.
deploySteps == <<"runPreDeploymentChecks", "buildApplication", "runTests",
                 "optimizeAssets", "createDockerImage", "validateDeployment">>

\* deploy(): one awaited step has run on d and left r.  A throw is caught
\* and ends the process with process.exit(1); after the last step the
\* success message is logged.
deploy(d, r) ==
    LET i == Len(d.steps) + 1
        started == [r EXCEPT !.steps = Append(@, deploySteps[i])]
    IN  IF r.thrown # NoError
        THEN [started EXCEPT !.pc = "exited", !.failedAt = deploySteps[i], !.exitCode = 1]
        ELSE IF i = Len(deploySteps)
        THEN [started EXCEPT !.pc = "completed", !.succeeded = TRUE]
        ELSE [started EXCEPT !.pc = deploySteps[i + 1]]

Environments == {"production", "staging", "development"}
ProcessEnvs == [EnvVars -> {Undefined, "", "set"}]

DeployFrame ==
    UNCHANGED <<modelInstanceCache, performanceMetrics, lastCacheCleanup, now, created,
                lastCall, pending, health, dynamicModels>>

\* new DeploymentManager(environment).deploy() in a process environment.
StartDeploy(environment, env) ==
    /\ deployment.pc = "notStarted"
    /\ deployment' = [DeployNotStarted EXCEPT !.pc = deploySteps[1],
                                          !.config = DeploymentConfig(environment),
                                          !.env = env]
    /\ DeployFrame

RunPreDeploymentChecks(lintOk) ==
    /\ deployment.pc = "runPreDeploymentChecks"
    /\ deployment' = deploy(deployment, runPreDeploymentChecks(deployment, lintOk))
    /\ DeployFrame

BuildApplication(buildOk) ==
    /\ deployment.pc = "buildApplication"
    /\ deployment' = deploy(deployment, buildApplication(deployment, buildOk))
    /\ DeployFrame

RunTests(testsOk) ==
    /\ deployment.pc = "runTests"
    /\ deployment' = deploy(deployment, runTests(deployment, testsOk))
    /\ DeployFrame

OptimizeAssets(writeOk) ==
    /\ deployment.pc = "optimizeAssets"
    /\ deployment' = deploy(deployment, optimizeAssets(deployment, writeOk))
    /\ DeployFrame

CreateDockerImage(dockerfileExists, writeOk, dockerOk) ==
    /\ deployment.pc = "createDockerImage"
    /\ deployment' = deploy(deployment, createDockerImage(deployment, dockerfileExists, writeOk, dockerOk))
    /\ DeployFrame

ValidateDeployment(auditOk) ==
    /\ deployment.pc = "validateDeployment"
    /\ deployment' = deploy(deployment, validateDeployment(deployment, auditOk))
    /\ DeployFrame

NextDeploy ==
    \/ \E environment \in Environments, env \in ProcessEnvs : StartDeploy(environment, env)
    \/ \E lintOk \in BOOLEAN : RunPreDeploymentChecks(lintOk)
    \/ \E buildOk \in BOOLEAN : BuildApplication(buildOk)
    \/ \E testsOk \in BOOLEAN : RunTests(testsOk)
    \/ \E writeOk \in BOOLEAN : OptimizeAssets(writeOk)
    \/ \E dockerfileExists, writeOk, dockerOk \in BOOLEAN :
          CreateDockerImage(dockerfileExists, writeOk, dockerOk)
    \/ \E auditOk \in BOOLEAN : ValidateDeployment(auditOk)

SpecDeploy == Init /\ [][NextDeploy]_vars

\* --------------------------------------------------------- dynamic models
\* The basic provider's single static model.
staticModels ==
    <<[name |-> "zai-org/GLM-4.5-Air", label |-> "GLM-4.5-Air", provider |-> "Chutes",
       maxTokenAllowed |-> 8000]>>

\* An entry of the data array: null, or an object with an id and perhaps a
\* context_length (absent and 0 are both falsy).
NullEntry == [null |-> TRUE, id |-> Undefined, context_length |-> 0]
RemoteIds == {"zai-org/GLM-4.5-Air", "deepseek-ai/DeepSeek-V3", "Qwen/Qwen3-32B"}
RemoteEntries ==
    {NullEntry} \cup [null : {FALSE}, id : RemoteIds, context_length : {0, 32000}]

RemoteData == UNION {[1..n -> RemoteEntries] : n \in 0..MaxRemote}

\* What fetch and response.json() can give: a rejected fetch, a response
\* that is not OK, a body that is not JSON, the JSON value null, an object
\* without data, an object whose data is not an array, or a data array.
Responses ==
    {[settled |-> "rejected", ok |-> FALSE, body |-> "none", data |-> <<>>],
     [settled |-> "fulfilled", ok |-> FALSE, body |-> "none", data |-> <<>>]}
    \cup [settled : {"fulfilled"}, ok : {TRUE},
          body : {"not JSON", "null", "no data", "data not an array"}, data : {<<>>}]
    \cup [settled : {"fulfilled"}, ok : {TRUE}, body : {"data array"}, data : RemoteData]

\* Variant: the remote models are mapped without the filter.
getDynamicModelsUnfiltered(apiKeys, settings, serverEnv, response) ==
    LET cfg == getProviderBaseUrlAndKey(apiKeys, settings, serverEnv)
    IN  IF cfg.baseUrl = Undefined \/ cfg.apiKey = Undefined
        THEN [threw |-> FALSE, models |-> <<>>]
        ELSE IF response.settled = "rejected"
        THEN [threw |-> FALSE, models |-> <<>>]
        ELSE IF ~response.ok
        THEN [threw |-> FALSE, models |-> <<>>]
        ELSE IF response.body \in {"not JSON", "null"}
        THEN [threw |-> FALSE, models |-> <<>>]
        ELSE IF response.body # "data array"
        THEN [threw |-> FALSE, models |-> <<>>]
        ELSE IF \E i \in DOMAIN response.data : response.data[i].null
        THEN [threw |-> FALSE, models |-> <<>>]
        ELSE [threw |-> FALSE,
              models |-> [i \in DOMAIN response.data |->
                           [name |-> response.data[i].id, label |-> response.data[i].id,
                            provider |-> "Chutes",
                            maxTokenAllowed |-> IF response.data[i].context_length # 0
                                                THEN response.data[i].context_length
                                                ELSE 8000]]]

\* The basic provider's getDynamicModels.  Credentials are resolved outside
\* the try block; a rejected fetch, a body that is not JSON, reading .data
\* of null and reading .id of a null entry all throw inside it and are
\* caught, giving the empty list.
getDynamicModels(apiKeys, settings, serverEnv, response) ==
    LET cfg == getProviderBaseUrlAndKey(apiKeys, settings, serverEnv)
        staticModelIds == {staticModels[i].name : i \in DOMAIN staticModels}
    IN  IF cfg.baseUrl = Undefined \/ cfg.apiKey = Undefined
        THEN [threw |-> FALSE, models |-> <<>>]
        ELSE IF response.settled = "rejected"
        THEN [threw |-> FALSE, models |-> <<>>]
        ELSE IF ~response.ok
        THEN [threw |-> FALSE, models |-> <<>>]
        ELSE IF response.body \in {"not JSON", "null"}
        THEN [threw |-> FALSE, models |-> <<>>]
        ELSE IF response.body # "data array"
        THEN [threw |-> FALSE, models |-> <<>>]
        ELSE IF \E i \in DOMAIN response.data : response.data[i].null
        THEN [threw |-> FALSE, models |-> <<>>]
        ELSE LET kept == SelectSeq(response.data, LAMBDA model : model.id \notin staticModelIds)
             IN  [threw |-> FALSE,
                  models |-> [i \in DOMAIN kept |->
                               [name |-> kept[i].id, label |-> kept[i].id,
                                provider |-> "Chutes",
                                maxTokenAllowed |-> IF kept[i].context_length # 0
                                                    THEN kept[i].context_length
                                                    ELSE 8000]]]

\* The enhanced provider's getDynamicModels: return [].
enhancedGetDynamicModels(apiKeys, settings, serverEnv) ==
    [threw |-> FALSE, models |-> <<>>]

ModelsFrame ==
    UNCHANGED <<modelInstanceCache, performanceMetrics, lastCacheCleanup, now, created,
                lastCall, pending, health, deployment>>

\* One call of the basic provider's method; the models endpoint answers
\* with response if it is asked.
GetDynamicModels(apiKeys, settings, serverEnv, response) ==
    LET r == getDynamicModels(apiKeys, settings, serverEnv, response)
    IN  /\ dynamicModels' = [provider |-> "Chutes", apiKeys |-> apiKeys,
                             settings |-> settings, serverEnv |-> serverEnv,
                             response |-> response, threw |-> r.threw, models |-> r.models]
        /\ ModelsFrame

\* One call of the enhanced provider's method; it makes no request.
EnhancedGetDynamicModels(apiKeys, settings, serverEnv) ==
    LET r == enhancedGetDynamicModels(apiKeys, settings, serverEnv)
    IN  /\ dynamicModels' = [provider |-> name, apiKeys |-> apiKeys,
                             settings |-> settings, serverEnv |-> serverEnv,
                             response |-> NoResponse, threw |-> r.threw, models |-> r.models]
        /\ ModelsFrame

NextModels ==
    \/ \E apiKeys \in {Undefined, "keyA"}, serverEnv \in {NoEnv, KeyEnv},
          response \in Responses :
            GetDynamicModels(apiKeys, UndefinedSettings, serverEnv, response)
    \/ \E apiKeys \in {Undefined, "keyA"}, settings \in {UndefinedSettings, AltSettings},
          serverEnv \in {NoEnv, KeyEnv} :
            EnhancedGetDynamicModels(apiKeys, settings, serverEnv)

SpecModels == Init /\ [][NextModels]_vars

\* ---------------------------------------------------------- properties
\* What the properties say of a cache, written without the provider's own
\* lookups.
Cached(cache, key) == key \in {cache[i].key : i \in DOMAIN cache}
ValueAt(cache, key) == cache[CHOOSE i \in DOMAIN cache : cache[i].key = key].value
KeyOf(req) == cacheKey(req.model, req.providerSettings)
Failed(call) == call.outcome \in {"missing configuration", "factory error"}

\* A step that is one getModelInstance call, and one that is a clearCache
\* call (Tick alone moves the clock).
CallStep == lastCall'.op = "getModelInstance" /\ now' = now
ClearStep == lastCall'.op = "clearCache" /\ now' = now
MissingCredentials(req) ==
    LET cfg == getProviderBaseUrlAndKey(req.apiKeys, req.providerSettings, req.serverEnv)
    IN  cfg.baseUrl = Undefined \/ cfg.apiKey = Undefined
Min(a, b) == IF a < b THEN a ELSE b
\* ceil(0.2 * M)
CeilFifth(M) == (2 * M + 9) \div 10

\* C1: a call for a key that is in the cache returns the instance cached
\* under that key and builds nothing: the factory is not invoked and no
\* instance is created.
C1_CachedKeyReturnsSameInstance ==
    [][(CallStep /\ Cached(modelInstanceCache, lastCall'.key))
        => /\ lastCall'.outcome = "returned"
           /\ lastCall'.result = ValueAt(modelInstanceCache, lastCall'.key)
           /\ ~lastCall'.invoked
           /\ created' = created]_vars

\* A hit has returned an instance built before later ones were.
C1_Witness ==
    /\ lastCall.op = "getModelInstance"
    /\ lastCall.outcome = "returned"
    /\ ~lastCall.invoked
    /\ lastCall.result.id >= 1
    /\ lastCall.result.id < created
    /\ Cached(modelInstanceCache, lastCall.key)

\* C2: between calls the cache holds at most maxCacheSize entries, and no
\* insert ever leaves it, even for a moment, with more than maxCacheSize + 1.
C2_SizeBound ==
    /\ Len(modelInstanceCache) <= maxCacheSize
    /\ lastCall.inserted <= maxCacheSize + 1

\* The insert that made the size maxCacheSize + 1 has returned.
C2_Witness ==
    /\ lastCall.inserted = maxCacheSize + 1
    /\ Len(modelInstanceCache) < lastCall.inserted

\* C3: the instance a call returns was built from the base URL and the API
\* key that the call's own options resolve to.
C3_InstanceBuiltFromOwnCredentials ==
    [][\A req \in OptionRequests :
        (GetModelInstance(req) /\ lastCall'.outcome = "returned")
        => LET cfg == getProviderBaseUrlAndKey(req.apiKeys, req.providerSettings,
                                               req.serverEnv)
           IN  /\ lastCall'.result.apiKey = cfg.apiKey
               /\ lastCall'.result.baseUrl = cfg.baseUrl]_vars

\* C4: after a call that threw, no instance was returned, the call's key is
\* not in the cache, and a further call for that key takes the construction
\* path: it throws the missing-configuration error or invokes the factory.
C4_FailedConstructionLeavesKeyAbsent ==
    (lastCall.op = "getModelInstance" /\ Failed(lastCall))
    => /\ lastCall.result = NoInstance
       /\ ~Cached(modelInstanceCache, lastCall.key)
       /\ \A req \in OptionRequests :
            KeyOf(req) = lastCall.key
            => LET r == getModelInstance(State, now, req)
               IN  IF MissingCredentials(req)
                   THEN r.outcome = "missing configuration"
                   ELSE r.invoked

\* The factory has thrown while other keys were cached.
C4_Witness ==
    /\ lastCall.op = "getModelInstance"
    /\ lastCall.outcome = "factory error"
    /\ lastCall.invoked
    /\ Len(modelInstanceCache) >= 1

\* C5: a call whose options resolve to no base URL or no API key throws the
\* missing-configuration error, whatever the cache holds.
C5_MissingCredentialsAlwaysThrow ==
    [][\A req \in OptionRequests :
        (GetModelInstance(req) /\ MissingCredentials(req))
        => lastCall'.outcome = "missing configuration"]_vars

\* C6: clearCache empties the cache and the metrics and sets the cleanup
\* clock to the current time; the first call after it that returns has
\* built a new instance, and the metrics then hold that one request only.
C6_ClearForgetsEverything ==
    [][/\ ClearStep
          => /\ modelInstanceCache' = <<>>
             /\ DOMAIN performanceMetrics' = {}
             /\ lastCacheCleanup' = now
       /\ (lastCall.op = "clearCache" /\ CallStep /\ lastCall'.outcome = "returned")
          => /\ lastCall'.invoked
             /\ lastCall'.result.id > created
             /\ DOMAIN performanceMetrics' = {lastCall'.result.model}
             /\ performanceMetrics'[lastCall'.result.model] = 1]_vars

\* An instance was built, the cache cleared, and an instance built again.
C6_Witness ==
    /\ lastCall.op = "getModelInstance"
    /\ lastCall.outcome = "returned"
    /\ lastCall.invoked
    /\ created >= 2
    /\ Len(modelInstanceCache) = 1
    /\ DOMAIN performanceMetrics = {lastCall.result.model}
    /\ performanceMetrics[lastCall.result.model] = 1

\* C7: after a call that built and returned an instance, the call's key is
\* in the cache and maps to the returned instance.
C7_InsertedEntrySurvivesItsCall ==
    (lastCall.op = "getModelInstance" /\ lastCall.outcome = "returned" /\ lastCall.invoked)
    => /\ Cached(modelInstanceCache, lastCall.key)
       /\ ValueAt(modelInstanceCache, lastCall.key) = lastCall.result

\* A call whose insert triggered the size eviction has returned its instance.
C7_Witness ==
    /\ lastCall.op = "getModelInstance"
    /\ lastCall.outcome = "returned"
    /\ lastCall.invoked
    /\ lastCall.runs = 1
    /\ lastCall.inserted > maxCacheSize
    /\ modelInstanceCache[Len(modelInstanceCache)].value = lastCall.result

\* The M = 5 scenario: k1..k5 inserted, then k6.
Scenario5 ==
    LET Ins(c, k) == InsertAndCheckSize(c, <<k, name, "{}">>,
                                        createOptimizedModel(configBaseUrl, "keyA", k, k), 5).cache
        final == Ins(Ins(Ins(Ins(Ins(Ins(<<>>, 1), 2), 3), 4), 5), 6)
    IN  [i \in DOMAIN final |-> final[i].key[1]] = <<2, 3, 4, 5, 6>>

\* C8: a call that makes an eviction run removes exactly
\* min(ceil(0.2 * maxCacheSize), size) entries, the oldest ones, and keeps
\* the others in their order; and with a maximum of 5, inserting k1..k5 and
\* then k6 leaves k2..k6.
C8_EvictionRemovesOldestFifth ==
    [][/\ (CallStep /\ lastCall'.runs >= 1)
          => LET size == IF lastCall'.inserted > maxCacheSize
                         THEN lastCall'.inserted ELSE Len(modelInstanceCache)
                 k == Min(CeilFifth(maxCacheSize), size)
             IN  /\ lastCall'.runs = 1
                 /\ Len(modelInstanceCache') =
                        Len(modelInstanceCache) + (IF lastCall'.inserted > 0 THEN 1 ELSE 0) - k
                 /\ \A i \in 1..(Len(modelInstanceCache) - k) :
                        modelInstanceCache'[i] = modelInstanceCache[i + k]
       /\ Scenario5]_vars

\* An eviction run was made by a call that then threw.
C8_Witness ==
    /\ lastCall.op = "getModelInstance"
    /\ Failed(lastCall)
    /\ lastCall.runs = 1
    /\ Len(modelInstanceCache) > 0

C10_PeriodicCleanup ==
    [][(CallStep /\ ~Cached(modelInstanceCache, lastCall'.key))
        => IF now - lastCacheCleanup > 300000
           THEN /\ lastCacheCleanup' = now
                /\ lastCall'.runs = 1 <=> Len(modelInstanceCache) * 10 > maxCacheSize * 8
           ELSE /\ lastCacheCleanup' = lastCacheCleanup
                /\ lastCall'.runs = 1 <=> lastCall'.inserted > maxCacheSize
                /\ lastCall'.inserted = 0 => modelInstanceCache' = modelInstanceCache
                /\ lastCall'.runs = 0
                   => SubSeq(modelInstanceCache', 1, Len(modelInstanceCache)) = modelInstanceCache]_vars

\* The periodic cleanup has evicted during a call that then inserted.
C10_Witness ==
    /\ lastCall.op = "getModelInstance"
    /\ lastCall.runs = 1
    /\ lastCall.inserted > 0
    /\ lastCall.inserted <= maxCacheSize
    /\ lastCacheCleanup = now

\* The request count of a model in a metrics snapshot (0: no record).
CountOf(metrics, m) == IF m \in DOMAIN metrics THEN metrics[m] ELSE 0
\* The snapshot after is the snapshot before with one more request for m.
OneMoreRequest(before, after, m) ==
    after = [x \in DOMAIN before \cup {m} |->
                IF x = m THEN CountOf(before, m) + 1 ELSE before[x]]

\* C11 (as stated): with 0.85 * maxCacheSize entries cached and more than
\* 300000 ms since the last cleanup, any getModelInstance call makes an
\* eviction run.
C11_AnyCallTriggersEviction ==
    [][(/\ CallStep
        /\ Len(modelInstanceCache) * 100 = 85 * maxCacheSize
        /\ now - lastCacheCleanup > 300000)
        => lastCall'.runs = 1]_vars

\* C11 (amended): with 0.85 * maxCacheSize entries cached and more than
\* 300000 ms since the last cleanup, a getModelInstance call whose key is
\* not cached makes an eviction run, whether it then returns or throws,
\* although the size never exceeds maxCacheSize during the call.
C11_MissTriggersEviction ==
    [][(/\ CallStep
        /\ Len(modelInstanceCache) * 100 = 85 * maxCacheSize
        /\ now - lastCacheCleanup > 300000
        /\ ~Cached(modelInstanceCache, lastCall'.key))
        => /\ lastCall'.runs = 1
           /\ lastCall'.inserted <= maxCacheSize
           /\ Len(modelInstanceCache') < Len(modelInstanceCache)]_vars

\* A miss on a cache of 85 entries has evicted 20 and inserted its own.
C11_Witness ==
    /\ lastCall.op = "getModelInstance"
    /\ lastCall.runs = 1
    /\ lastCall.inserted * 100 = (85 - 20) * maxCacheSize + 100
    /\ Len(modelInstanceCache) = lastCall.inserted
    /\ lastCacheCleanup = now

\* C12: a call that returns adds one request to its model's count and
\* changes no other count; a call that throws and the passing of time
\* change no count; clearCache leaves no record.  Eviction runs are part of
\* such calls, so they never lower or remove a count.
C12_MetricsCountReturnedCalls ==
    [][/\ (CallStep /\ lastCall'.outcome = "returned")
          => OneMoreRequest(performanceMetrics, performanceMetrics', lastCall'.key[1])
       /\ (CallStep /\ Failed(lastCall'))
          => performanceMetrics' = performanceMetrics
       /\ ClearStep => DOMAIN performanceMetrics' = {}
       /\ (~CallStep /\ ~ClearStep) => performanceMetrics' = performanceMetrics]_vars

\* After an eviction run the metrics still count a model whose entry is gone.
C12_Witness ==
    /\ lastCall.op = "getModelInstance"
    /\ lastCall.runs = 1
    /\ \E m \in DOMAIN performanceMetrics :
        /\ performanceMetrics[m] >= 1
        /\ \A i \in DOMAIN modelInstanceCache : modelInstanceCache[i].key[1] # m

\* C14: on a miss the periodic-cleanup check comes after the construction
\* and the insert: a call that throws has not run it (the clock is
\* unchanged, no eviction ran), and in a call that returns it sees the size
\* that includes the new entry.
C14_CleanupAfterInsert ==
    [][(CallStep /\ ~Cached(modelInstanceCache, lastCall'.key))
        => /\ Failed(lastCall')
              => /\ lastCacheCleanup' = lastCacheCleanup
                 /\ lastCall'.runs = 0
           /\ (lastCall'.outcome = "returned" /\ now - lastCacheCleanup > 300000)
              => (lastCall'.runs >= 1
                  <=> (Len(modelInstanceCache) + 1) * 10 > maxCacheSize * 8)]_vars

CachedKeys(cache) == {cache[i].key : i \in DOMAIN cache}

\* C15: an entry leaves the cache only in a clearCache call or in a call
\* that makes an eviction run; a hit leaves the cached entries, their order,
\* the cleanup clock and the instance count as they were and adds one
\* request to the requested model's count, changing no other count.
C15_HitChangesOnlyItsCount ==
    [][/\ \/ ClearStep
          \/ CallStep /\ lastCall'.runs >= 1
          \/ CachedKeys(modelInstanceCache) \subseteq CachedKeys(modelInstanceCache')
       /\ (CallStep /\ Cached(modelInstanceCache, lastCall'.key))
          => /\ modelInstanceCache' = modelInstanceCache
             /\ lastCacheCleanup' = lastCacheCleanup
             /\ created' = created
             /\ OneMoreRequest(performanceMetrics, performanceMetrics', lastCall'.key[1])]_vars

\* A hit on a cache of several entries, long after the last cleanup.
C15_Witness ==
    /\ lastCall.op = "getModelInstance"
    /\ lastCall.outcome = "returned"
    /\ ~lastCall.invoked
    /\ Len(modelInstanceCache) >= 2
    /\ now - lastCacheCleanup > cacheCleanupInterval
    /\ performanceMetrics[lastCall.key[1]] >= 2

\* C16: a call that throws leaves the cached entries, the metrics and the
\* cleanup clock as they were.
C16_FailedCallChangesNothing ==
    [][(CallStep /\ Failed(lastCall'))
        => /\ modelInstanceCache' = modelInstanceCache
           /\ performanceMetrics' = performanceMetrics
           /\ lastCacheCleanup' = lastCacheCleanup]_vars

\* No key is cached twice.
OneValuePerKey(cache) ==
    \A i, j \in DOMAIN cache : cache[i].key = cache[j].key => i = j

\* C13: with several callers scheduling getModelInstance and clearCache
\* calls in any interleaving, a scheduled call runs to its return in one
\* step; no step builds an instance for a key that is cached, and after
\* every step, the states other callers observe, the cache holds at most
\* maxCacheSize entries and no key twice.
C13_CallsDoNotInterleave ==
    [][/\ created' > created => ~Cached(modelInstanceCache, lastCall'.key)
       /\ \A c \in Callers :
            (pending[c].status = "issued" /\ pending'[c].status # "issued")
            => /\ pending'[c].status = "done"
               /\ lastCall'.op = pending[c].op
               /\ \A d \in Callers \ {c} : pending'[d] = pending[d]
       /\ Len(modelInstanceCache') <= maxCacheSize
       /\ OneValuePerKey(modelInstanceCache')]_vars

\* Two callers had a call for the same uncached model scheduled at the same
\* time; one built the instance, the other was given that instance.
C13_Witness ==
    \E c, d \in Callers :
        /\ c # d
        /\ pending[c].status = "done" /\ pending[d].status = "done"
        /\ pending[c].op = "getModelInstance" /\ pending[d].op = "getModelInstance"
        /\ pending[c].req.model = pending[d].req.model
        /\ pending[c].req.model > Prefill
        /\ pending[d].overlap
        /\ pending[c].built /\ ~pending[d].built
        /\ pending[c].id = pending[d].id
        /\ pending[c].id > Prefill

\* C17: the endpoint reports 'healthy' only when the database, cache,
\* external-API and memory results are all 'healthy'.
C17_HealthyOnlyIfAllHealthy ==
    (health.asked /\ health.status = "healthy")
    => /\ health.database = "healthy"
       /\ health.cache = "healthy"
       /\ health.external_apis = "healthy"
       /\ health.memory = "healthy"

\* C18: in every response, and for every combination of declared component
\* results, the status code is 503 exactly when the overall status is
\* 'unhealthy', which is exactly when the database is unhealthy or the
\* memory is critical; otherwise it is 200.
C18_StatusCode ==
    /\ health.asked
       => /\ health.statusCode = IF health.status = "unhealthy" THEN 503 ELSE 200
          /\ health.status = "unhealthy"
             <=> (health.database = "unhealthy" \/ health.memory = "critical")
    /\ \A db \in DatabaseResults, ca \in CacheResults, api \in ApiResults, mem \in MemoryResults :
         LET code == statusCode(overallStatus(db, ca, api, mem))
         IN  /\ code = 503 <=> overallStatus(db, ca, api, mem) = "unhealthy"
             /\ code = 503 <=> (db = "unhealthy" \/ mem = "critical")
             /\ code # 503 => code = 200

\* A 503 response: memory critical; and the external API was unreachable.
C18_Witness ==
    /\ health.asked
    /\ health.statusCode = 503
    /\ health.memory = "critical"
    /\ health.external_apis = "unhealthy"

\* The order the steps and the commands of a deployment are claimed to have.
ClaimedSteps == <<"runPreDeploymentChecks", "buildApplication", "runTests",
                  "optimizeAssets", "createDockerImage", "validateDeployment">>
CommandRank(command) ==
    CASE command = "npm run lint" -> 1
      [] command \in {"npm run build:production", "npm run build"} -> 2
      [] command = "npm run test:ci" -> 3
      [] command = "docker build" -> 5
      [] command = "npm audit --audit-level high" -> 6
      [] OTHER -> 0
Commands(d) == {d.commands[i] : i \in DOMAIN d.commands}

DeployedInOrder(d) ==
    /\ Len(d.steps) <= Len(ClaimedSteps)
    /\ \A i \in DOMAIN d.steps : d.steps[i] = ClaimedSteps[i]
    /\ \A i, j \in DOMAIN d.commands :
         i < j => /\ CommandRank(d.commands[i]) > 0
                  /\ CommandRank(d.commands[i]) < CommandRank(d.commands[j])
    /\ d.pc = "exited" <=> d.failedAt # "none"
    /\ d.pc = "exited" <=> d.exitCode = 1
    /\ d.pc = "exited" <=> d.thrown # NoError
    /\ d.failedAt # "none" => d.failedAt = d.steps[Len(d.steps)]
    /\ d.succeeded <=> d.pc = "completed"
    /\ d.succeeded => /\ d.steps = ClaimedSteps
                      /\ d.failedAt = "none"
                      /\ d.exitCode = 0
    /\ (d.pc # "notStarted" /\ d.pc # "runPreDeploymentChecks"
        /\ \E v \in {"NODE_ENV", "DATABASE_URL", "CHUTES_API_KEY"} : d.env[v] \in {Undefined, ""})
       => /\ d.commands = <<>>
          /\ d.written = {}
          /\ d.failedAt = "runPreDeploymentChecks"
          /\ d.exitCode = 1

\* C19: the steps of a deployment start in the order pre-deployment checks,
\* build, tests, asset optimisation, Docker image, validation, and so do
\* their commands; the step that throws is the last one started, the run
\* then ends with exit code 1 and nothing runs after it; the success
\* message is logged only after all six steps without a throw.  With a
\* required environment variable unset or empty the run fails in the
\* pre-deployment checks before any command has run.
C19_StepsInOrder ==
    [][/\ DeployedInOrder(deployment) /\ DeployedInOrder(deployment')
       /\ deployment.pc \in {"exited", "completed"} => deployment' = deployment
       /\ deployment'.steps # deployment.steps
          => /\ deployment.thrown = NoError
             /\ deployment'.steps = Append(deployment.steps,
                                           ClaimedSteps[Len(deployment.steps) + 1])]_vars

\* A production deployment that passed the checks, the build, the tests and
\* the asset step, and ended with exit code 1 when docker build failed.
C19_Witness ==
    /\ deployment.pc = "exited"
    /\ deployment.exitCode = 1
    /\ deployment.failedAt = "createDockerImage"
    /\ deployment.config.environment = "production"
    /\ deployment.commands = <<"npm run lint", "npm run build:production",
                               "npm run test:ci", "docker build">>
    /\ deployment.failures = {"docker build"}

\* C20: a failed lint ends the run in the checks exactly in production; the
\* test suite is run exactly in production, where its failure ends the
\* run; a failed build or docker build ends the run in every environment;
\* a failed audit never ends it.
C20_FailuresByEnvironment ==
    LET d == deployment
        production == d.config.environment = "production"
    IN  /\ "npm run lint" \in d.failures
           => (d.failedAt = "runPreDeploymentChecks" <=> production)
        /\ "npm run test:ci" \in Commands(d) => production
        /\ (production /\ Len(d.steps) >= 3) => "npm run test:ci" \in Commands(d)
        /\ "npm run test:ci" \in d.failures => d.failedAt = "runTests"
        /\ d.failedAt = "runTests" => production
        /\ (d.failures \cap {"npm run build:production", "npm run build"} # {})
           => d.failedAt = "buildApplication"
        /\ "docker build" \in d.failures => d.failedAt = "createDockerImage"
        /\ "npm audit --audit-level high" \in d.failures
           => /\ d.failedAt = "none"
              /\ d.exitCode = 0
              /\ d.succeeded
        /\ d.failedAt # "validateDeployment"

\* A staging deployment completed although the linter failed, without
\* running the test suite.
C20_Witness ==
    /\ deployment.config.environment = "staging"
    /\ "npm run lint" \in deployment.failures
    /\ deployment.succeeded
    /\ deployment.commands = <<"npm run lint", "npm run build", "docker build">>

\* What C21 says of a getDynamicModels call of the basic provider.
StaticNames == {"zai-org/GLM-4.5-Air"}
Names(models) == {models[i].name : i \in DOMAIN models}
\* No API key given and none in the server environment (the base URL always
\* has the configured default).
NoCredentials(call) ==
    call.apiKeys = Undefined /\ call.serverEnv.CHUTES_API_KEY = Undefined
NoDataArray(call) ==
    \/ call.response.settled = "rejected"
    \/ ~call.response.ok
    \/ call.response.body # "data array"
\* The ids of the remote models that are not static model names, in the
\* order of the response.
RECURSIVE NonStaticIds(_)
NonStaticIds(data) ==
    IF data = <<>> THEN <<>>
    ELSE LET rest == NonStaticIds(Tail(data))
         IN  IF Head(data).null \/ Head(data).id \in StaticNames
             THEN rest ELSE <<Head(data).id>> \o rest
HasNullEntry(data) == \E i \in DOMAIN data : data[i].null

\* C21 (as stated): the basic provider's getDynamicModels never throws and
\* never returns a static model's name; it returns the empty list when the
\* credentials are missing, the response is not OK, the body has no data
\* array or the fetch throws, and otherwise exactly the remote models whose
\* id is not a static model name; the enhanced provider's returns the empty
\* list.
C21_DynamicModelsAsStated ==
    /\ ~dynamicModels.threw
    /\ dynamicModels.provider = name => dynamicModels.models = <<>>
    /\ dynamicModels.provider = "Chutes"
       => /\ Names(dynamicModels.models) \cap StaticNames = {}
          /\ (NoCredentials(dynamicModels) \/ NoDataArray(dynamicModels))
             => dynamicModels.models = <<>>
          /\ ~(NoCredentials(dynamicModels) \/ NoDataArray(dynamicModels))
             => [i \in DOMAIN dynamicModels.models |-> dynamicModels.models[i].name]
                = NonStaticIds(dynamicModels.response.data)

\* C21 (amended): as stated, with one more case that gives the empty list:
\* a data array with a null entry.  Every returned model carries the
\* provider name and its id as name and label, and its context_length or
\* 8000 as maxTokenAllowed.
C21_DynamicModels ==
    LET call == dynamicModels
        empty == \/ NoCredentials(call)
                 \/ NoDataArray(call)
                 \/ HasNullEntry(call.response.data)
    IN  /\ ~call.threw
        /\ call.provider = name => call.models = <<>>
        /\ call.provider = "Chutes"
           => /\ Names(call.models) \cap StaticNames = {}
              /\ empty => call.models = <<>>
              /\ ~empty
                 => /\ [i \in DOMAIN call.models |-> call.models[i].name]
                       = NonStaticIds(call.response.data)
                    /\ \A i \in DOMAIN call.models :
                         /\ call.models[i].label = call.models[i].name
                         /\ call.models[i].provider = "Chutes"
                         /\ call.models[i].maxTokenAllowed \in {8000, 32000}

\* The endpoint listed the static model and another one; the call returned
\* the other one only.
C21_Witness ==
    /\ dynamicModels.provider = "Chutes"
    /\ Len(dynamicModels.response.data) = 2
    /\ dynamicModels.response.data[1].id = "zai-org/GLM-4.5-Air"
    /\ ~dynamicModels.response.data[2].null
    /\ Len(dynamicModels.models) = 1
    /\ dynamicModels.models[1].name = dynamicModels.response.data[2].id
    /\ dynamicModels.models[1].name # "zai-org/GLM-4.5-Air"

====
